---- MODULE Spec2Model ----
(***************************************************************************)
(* Model of anomaly_detector.py: one run of main().  Text is modelled as   *)
(* sequences of one-character strings, so that strip, split, upper and int *)
(* are computed character by character as the library computes them.  A    *)
(* dict is a sequence of [user, count] records in insertion order, which   *)
(* is the order Python iterates it in.                                     *)
(***************************************************************************)
EXTENDS Integers, Sequences, FiniteSets, TLC

\* ------------------------------------------------------------------ bounds
MaxLines == 3

\* --------------------------------------------------------------- constants
DEFAULT_LOG_FILE == "logs/auth.log"
DEFAULT_FAILED_THRESHOLD == 5

\* --------------------------------------------------------- character data
Whitespace == {" ", "\t", "\n"}

LowerChars == <<"a","b","c","d","e","f","g","h","i","j","k","l","m",
                "n","o","p","q","r","s","t","u","v","w","x","y","z">>
UpperChars == <<"A","B","C","D","E","F","G","H","I","J","K","L","M",
                "N","O","P","Q","R","S","T","U","V","W","X","Y","Z">>
DigitChars == <<"0","1","2","3","4","5","6","7","8","9">>

LOGIN_FAILED == <<"L","O","G","I","N","_","F","A","I","L","E","D">>

\* ------------------------------------------------------ string operations
\* str.upper(), one character
CharUpper(c) ==
    IF \E i \in 1..Len(LowerChars) : LowerChars[i] = c
    THEN UpperChars[CHOOSE i \in 1..Len(LowerChars) : LowerChars[i] = c]
    ELSE c

\* a variant of upper() that leaves the text as it is
StrUpperNoFold(s) == s

\* str.upper()
StrUpper(s) == [i \in 1..Len(s) |-> CharUpper(s[i])]

RECURSIVE lstrip(_)
lstrip(s) ==
    IF s = <<>> THEN <<>>
    ELSE IF Head(s) \in Whitespace THEN lstrip(Tail(s))
    ELSE s

RECURSIVE rstrip(_)
rstrip(s) ==
    IF s = <<>> THEN <<>>
    ELSE IF s[Len(s)] \in Whitespace THEN rstrip(SubSeq(s, 1, Len(s) - 1))
    ELSE s

\* str.strip()
strip(s) == rstrip(lstrip(s))

RECURSIVE split_scan(_, _, _)
split_scan(s, cur, acc) ==
    IF s = <<>>
    THEN IF cur = <<>> THEN acc ELSE Append(acc, cur)
    ELSE IF Head(s) \in Whitespace
         THEN split_scan(Tail(s), <<>>,
                         IF cur = <<>> THEN acc ELSE Append(acc, cur))
         ELSE split_scan(Tail(s), Append(cur, Head(s)), acc)

\* str.split() with no separator: runs of whitespace separate the tokens
split(s) == split_scan(s, <<>>, <<>>)

DigitValue(c) == (CHOOSE i \in 1..Len(DigitChars) : DigitChars[i] = c) - 1

IsDigit(c) == \E i \in 1..Len(DigitChars) : DigitChars[i] = c

RECURSIVE DigitsValue(_, _)
DigitsValue(s, acc) ==
    IF s = <<>> THEN acc
    ELSE IF Head(s) = "_" THEN DigitsValue(Tail(s), acc)
    ELSE DigitsValue(Tail(s), 10 * acc + DigitValue(Head(s)))

\* the digit part of an integer literal: digits, single underscores between
WellFormedDigits(s) ==
    /\ s # <<>>
    /\ \A i \in 1..Len(s) : IsDigit(s[i]) \/ s[i] = "_"
    /\ IsDigit(s[1])
    /\ IsDigit(s[Len(s)])
    /\ \A i \in 1..(Len(s) - 1) : ~(s[i] = "_" /\ s[i + 1] = "_")

\* int(s): ok = FALSE stands for ValueError
ParseInt(s) ==
    LET t    == strip(s)
        neg  == t # <<>> /\ Head(t) = "-"
        sgn  == t # <<>> /\ Head(t) \in {"+", "-"}
        body == IF sgn THEN Tail(t) ELSE t
    IN  IF WellFormedDigits(body)
        THEN [ok |-> TRUE,
              value |-> IF neg THEN 0 - DigitsValue(body, 0)
                        ELSE DigitsValue(body, 0)]
        ELSE [ok |-> FALSE, value |-> 0]

\* ------------------------------------------------------------- dictionary
Keys(d) == {d[i].user : i \in 1..Len(d)}

\* dict.get(user, 0)
DictGet(d, user) ==
    IF user \in Keys(d)
    THEN d[CHOOSE i \in 1..Len(d) : d[i].user = user].count
    ELSE 0

\* failed_attempts[user] = 1, forgetting the earlier count
DictIncrementReset(d, user) ==
    IF user \in Keys(d)
    THEN [i \in 1..Len(d) |->
             IF d[i].user = user THEN [user |-> user, count |-> 1] ELSE d[i]]
    ELSE Append(d, [user |-> user, count |-> 1])

\* failed_attempts[user] = failed_attempts.get(user, 0) + 1
DictIncrement(d, user) ==
    IF user \in Keys(d)
    THEN [i \in 1..Len(d) |->
             IF d[i].user = user
             THEN [user |-> user, count |-> DictGet(d, user) + 1]
             ELSE d[i]]
    ELSE Append(d, [user |-> user, count |-> DictGet(d, user) + 1])

\* ----------------------------------------------------- load_failed_attempts
\* the loop body with total_lines counted only for non-blank lines
ProcessLineCountNonBlank(st, line) ==
    LET stripped == strip(line)
        parts    == split(stripped)
    IN  IF stripped = <<>> THEN st
        ELSE IF Len(parts) < 4
        THEN [st EXCEPT !.total_lines = st.total_lines + 1]
        ELSE IF StrUpper(parts[4]) = LOGIN_FAILED
        THEN [failed_attempts |-> DictIncrement(st.failed_attempts, parts[3]),
              total_lines     |-> st.total_lines + 1,
              total_failed    |-> st.total_failed + 1]
        ELSE [st EXCEPT !.total_lines = st.total_lines + 1]

\* the loop body with total_failed counted before the event is compared
ProcessLineCountBeforeTest(st, line) ==
    LET counted  == [st EXCEPT !.total_lines = st.total_lines + 1]
        stripped == strip(line)
        parts    == split(stripped)
    IN  IF stripped = <<>> THEN counted
        ELSE IF Len(parts) < 4 THEN counted
        ELSE IF StrUpper(parts[4]) = LOGIN_FAILED
        THEN [counted EXCEPT
                 !.total_failed = counted.total_failed + 1,
                 !.failed_attempts = DictIncrement(counted.failed_attempts, parts[3])]
        ELSE [counted EXCEPT !.total_failed = counted.total_failed + 1]

\* one iteration of "for line in f": parts[2] is parts[3] here, sequences
\* being indexed from 1
ProcessLine(st, line) ==
    LET counted  == [st EXCEPT !.total_lines = st.total_lines + 1]
        stripped == strip(line)
        parts    == split(stripped)
    IN  IF stripped = <<>> THEN counted
        ELSE IF Len(parts) < 4 THEN counted
        ELSE LET user  == parts[3]
                 event == StrUpper(parts[4])
             IN  IF event = LOGIN_FAILED
                 THEN [counted EXCEPT
                          !.total_failed = counted.total_failed + 1,
                          !.failed_attempts = DictIncrement(counted.failed_attempts, user)]
                 ELSE counted

\* ---------------------------------------------------- find_suspicious_users
\* the filter with a strict comparison
find_suspicious_users_strict(failed_attempts, threshold) ==
    SelectSeq(failed_attempts, LAMBDA e : e.count > threshold)

\* the filter with an equality comparison
find_suspicious_users_equal(failed_attempts, threshold) ==
    SelectSeq(failed_attempts, LAMBDA e : e.count = threshold)

\* the dict comprehension: items in insertion order, kept when count >= threshold
find_suspicious_users(failed_attempts, threshold) ==
    SelectSeq(failed_attempts, LAMBDA e : e.count >= threshold)

\* ------------------------------------------------------------ print_summary
Out(kind, path, user, num) ==
    [kind |-> kind, path |-> path, user |-> user, num |-> num]

\* position at which a stable descending sort places x among sorted items:
\* after every item whose count is >= x.count
RECURSIVE InsertDesc(_, _)
InsertDesc(sorted, x) ==
    IF sorted = <<>> THEN <<x>>
    ELSE IF Head(sorted).count >= x.count
         THEN <<Head(sorted)>> \o InsertDesc(Tail(sorted), x)
         ELSE <<x>> \o sorted

RECURSIVE InsertAsc(_, _)
InsertAsc(sorted, x) ==
    IF sorted = <<>> THEN <<x>>
    ELSE IF Head(sorted).count <= x.count
         THEN <<Head(sorted)>> \o InsertAsc(Tail(sorted), x)
         ELSE <<x>> \o sorted

\* sorted(items, key=count) without reverse=True
RECURSIVE SortedAscending(_)
SortedAscending(items) ==
    IF items = <<>> THEN <<>>
    ELSE InsertAsc(SortedAscending(SubSeq(items, 1, Len(items) - 1)),
                   items[Len(items)])

\* sorted(items, key=lambda x: x[1], reverse=True): stable, descending
RECURSIVE SortedByCountDesc(_)
SortedByCountDesc(items) ==
    IF items = <<>> THEN <<>>
    ELSE InsertDesc(SortedByCountDesc(SubSeq(items, 1, Len(items) - 1)),
                    items[Len(items)])

SummaryHead(log_path, failed_attempts, total_lines, total_failed, threshold) ==
    << Out("header", "", <<>>, 0),
       Out("log_file", log_path, <<>>, 0),
       Out("total_lines", "", <<>>, total_lines),
       Out("total_failed", "", <<>>, total_failed),
       Out("users_with_failure", "", <<>>, Len(failed_attempts)),
       Out("threshold", "", <<>>, threshold) >>

UserLines(items) ==
    [i \in 1..Len(items) |-> Out("user", "", items[i].user, items[i].count)]

\* print_summary testing the tally instead of the suspicious set
print_summary_tests_tally(log_path, failed_attempts, total_lines, total_failed, threshold) ==
    LET suspicious == find_suspicious_users(failed_attempts, threshold)
        head == SummaryHead(log_path, failed_attempts, total_lines,
                            total_failed, threshold)
    IN  IF failed_attempts = <<>>
        THEN head \o << Out("no_suspicious", "", <<>>, 0) >>
        ELSE head \o << Out("suspicious_header", "", <<>>, 0) >>
                  \o UserLines(SortedByCountDesc(suspicious))

\* the lines print_summary writes to stdout, in order
print_summary(log_path, failed_attempts, total_lines, total_failed, threshold) ==
    LET suspicious == find_suspicious_users(failed_attempts, threshold)
        head == SummaryHead(log_path, failed_attempts, total_lines,
                            total_failed, threshold)
    IN  IF suspicious = <<>>
        THEN head \o << Out("no_suspicious", "", <<>>, 0) >>
        ELSE head \o << Out("suspicious_header", "", <<>>, 0) >>
                  \o UserLines(SortedByCountDesc(suspicious))

\* --------------------------------------------------------------- parse_args
\* parse_args falling back to 0 when the threshold does not parse
parse_args_zero_fallback(argv) ==
    LET log_path == IF Len(argv) >= 2 THEN argv[2] ELSE DEFAULT_LOG_FILE
        parsed   == IF Len(argv) >= 3 THEN ParseInt(argv[3])
                    ELSE [ok |-> TRUE, value |-> DEFAULT_FAILED_THRESHOLD]
    IN  [log_path  |-> log_path,
         threshold |-> parsed.value,
         printed   |-> IF parsed.ok THEN <<>>
                       ELSE << Out("invalid_threshold", "", argv[3],
                                   DEFAULT_FAILED_THRESHOLD) >>]

\* argv[0], argv[1], argv[2] of the code are argv[1], argv[2], argv[3] here
parse_args(argv) ==
    LET log_path == IF Len(argv) >= 2 THEN argv[2] ELSE DEFAULT_LOG_FILE
        parsed   == IF Len(argv) >= 3 THEN ParseInt(argv[3])
                    ELSE [ok |-> TRUE, value |-> DEFAULT_FAILED_THRESHOLD]
    IN  [log_path  |-> log_path,
         threshold |-> IF parsed.ok THEN parsed.value
                       ELSE DEFAULT_FAILED_THRESHOLD,
         printed   |-> IF parsed.ok THEN <<>>
                       ELSE << Out("invalid_threshold", "", argv[3],
                                   DEFAULT_FAILED_THRESHOLD) >>]

\* ------------------------------------------------------------------ inputs
W_date    == <<"d">>
W_time    == <<"t">>
W_alice   == <<"a","l","i","c","e">>
W_Alice   == <<"A","l","i","c","e">>
W_bob     == <<"b","o","b">>
W_lower   == <<"l","o","g","i","n","_","f","a","i","l","e","d">>
W_mixed   == <<"L","o","g","i","n","_","F","a","i","l","e","d">>
W_success == <<"L","O","G","I","N","_","S","U","C","C","E","S","S">>
SP        == <<" ">>
TAB       == <<"\t">>
NL        == <<"\n">>

\* the lines a log may hold, as "for line in f" yields them (terminator kept)
Lines ==
    { W_date \o SP \o W_time \o SP \o W_alice \o SP \o LOGIN_FAILED \o NL,
      W_date \o SP \o W_time \o SP \o W_alice \o SP \o W_lower \o NL,
      SP \o W_date \o TAB \o W_time \o SP \o SP \o W_Alice \o TAB \o W_mixed \o SP \o NL,
      W_date \o SP \o W_time \o SP \o W_bob \o SP \o LOGIN_FAILED \o SP \o W_date,
      W_date \o SP \o W_time \o SP \o W_bob \o SP \o W_success \o NL,
      W_time \o SP \o W_alice \o SP \o LOGIN_FAILED \o NL,
      W_date \o SP \o W_time \o SP \o LOGIN_FAILED \o SP \o W_alice \o NL,
      W_date \o SP \o W_time \o SP \o W_bob \o SP \o LOGIN_FAILED \o W_date \o NL,
      SP \o TAB \o NL,
      NL }

\* the threshold arguments a run may be given
ThresholdArgs ==
    { <<"2">>, <<"0">>, <<"-","1">>, <<"a","b","c">>,
      <<" ","+","1","_","0">>, <<"2",".","5">> }

Paths == {DEFAULT_LOG_FILE, "other.log"}

\* the file systems a run may meet: each path is a file, a directory or absent
FileSystems ==
    { [p \in Paths |-> IF p = DEFAULT_LOG_FILE THEN "file" ELSE "absent"],
      [p \in Paths |-> IF p = DEFAULT_LOG_FILE THEN "absent" ELSE "dir"],
      [p \in Paths |-> IF p = DEFAULT_LOG_FILE THEN "dir" ELSE "file"] }

Argvs ==
    { <<"anomaly_detector.py">> }
    \cup { <<"anomaly_detector.py", p>> : p \in Paths }
    \cup { <<"anomaly_detector.py", p, t>> : p \in Paths, t \in ThresholdArgs }

\* ------------------------------------------------------------------- state
VARIABLES argv, fs, pc, log_path, threshold, failed_attempts, total_lines,
          total_failed, read, output, exit_status, load_called

vars == << argv, fs, pc, log_path, threshold, failed_attempts, total_lines,
           total_failed, read, output, exit_status, load_called >>

loadVars == << failed_attempts, total_lines, total_failed, read >>

Init ==
    /\ argv \in Argvs
    /\ fs \in FileSystems
    /\ pc = "parse_args"
    /\ log_path = ""
    /\ threshold = 0
    /\ failed_attempts = <<>>
    /\ total_lines = 0
    /\ total_failed = 0
    /\ read = <<>>
    /\ output = <<>>
    /\ exit_status = <<>>
    /\ load_called = FALSE

\* log_path.exists() answering True whatever the path
PathExistsAlways(files, path) == TRUE

\* log_path.exists(): true of files and of directories
PathExists(files, path) == files[path] # "absent"

\* main: log_path, threshold = parse_args(sys.argv)
ParseArgs ==
    /\ pc = "parse_args"
    /\ LET r == parse_args(argv)
       IN  /\ log_path' = r.log_path
           /\ threshold' = r.threshold
           /\ output' = output \o r.printed
    /\ pc' = "check_exists"
    /\ UNCHANGED << argv, fs, loadVars, exit_status, load_called >>

\* main: the path does not exist; print and sys.exit(1)
ExitMissing ==
    /\ pc = "check_exists"
    /\ ~PathExists(fs, log_path)
    /\ output' = Append(output, Out("not_found", log_path, <<>>, 0))
    /\ exit_status' = <<1>>
    /\ pc' = "exited"
    /\ UNCHANGED << argv, fs, log_path, threshold, loadVars, load_called >>

\* main calls load_failed_attempts, whose open() succeeds
OpenLog ==
    /\ pc = "check_exists"
    /\ PathExists(fs, log_path)
    /\ fs[log_path] = "file"
    /\ load_called' = TRUE
    /\ failed_attempts' = <<>>
    /\ total_lines' = 0
    /\ total_failed' = 0
    /\ pc' = "load"
    /\ UNCHANGED << argv, fs, log_path, threshold, read, output, exit_status >>

\* main calls load_failed_attempts, whose open() raises; the exception is
\* not caught and the interpreter ends the run with status 1
OpenFail ==
    /\ pc = "check_exists"
    /\ PathExists(fs, log_path)
    /\ fs[log_path] # "file"
    /\ load_called' = TRUE
    /\ exit_status' = <<1>>
    /\ pc' = "io_error"
    /\ UNCHANGED << argv, fs, log_path, threshold, loadVars, output >>

\* one iteration of the loop over the file
ReadLine ==
    /\ pc = "load"
    /\ Len(read) < MaxLines
    /\ \E line \in Lines :
          LET st == ProcessLine([failed_attempts |-> failed_attempts,
                                 total_lines     |-> total_lines,
                                 total_failed    |-> total_failed], line)
          IN  /\ read' = Append(read, line)
              /\ failed_attempts' = st.failed_attempts
              /\ total_lines' = st.total_lines
              /\ total_failed' = st.total_failed
    /\ UNCHANGED << argv, fs, pc, log_path, threshold, output, exit_status,
                    load_called >>

\* the file is exhausted: load_failed_attempts returns its triple to main
EndOfFile ==
    /\ pc = "load"
    /\ pc' = "print_summary"
    /\ UNCHANGED << argv, fs, log_path, threshold, loadVars, output,
                    exit_status, load_called >>

\* main: print_summary(...), then the run ends with status 0
PrintSummary ==
    /\ pc = "print_summary"
    /\ output' = output \o print_summary(log_path, failed_attempts,
                                         total_lines, total_failed, threshold)
    /\ exit_status' = <<0>>
    /\ pc' = "done"
    /\ UNCHANGED << argv, fs, log_path, threshold, loadVars, load_called >>

Next ==
    \/ ParseArgs
    \/ ExitMissing
    \/ OpenLog
    \/ OpenFail
    \/ ReadLine
    \/ EndOfFile
    \/ PrintSummary

Spec == Init /\ [][Next]_vars

\* ------------------------------------------------- reference definitions
\* What the specification says of a line, stated without the scanner above:
\* a token is a maximal run of non-whitespace characters.
TokenStarts(line) ==
    { i \in 1..Len(line) :
         line[i] \notin Whitespace /\ (i = 1 \/ line[i - 1] \in Whitespace) }

TokenEnd(line, i) ==
    CHOOSE j \in i..Len(line) :
       /\ \A k \in i..j : line[k] \notin Whitespace
       /\ (j = Len(line) \/ line[j + 1] \in Whitespace)

TokenCount(line) == Cardinality(TokenStarts(line))

\* the n-th token, for n in 1..TokenCount(line)
Token(line, n) ==
    LET i == CHOOSE k \in TokenStarts(line) :
                Cardinality({ j \in TokenStarts(line) : j < k }) = n - 1
    IN  SubSeq(line, i, TokenEnd(line, i))

CharLower(c) ==
    IF \E i \in 1..Len(UpperChars) : UpperChars[i] = c
    THEN LowerChars[CHOOSE i \in 1..Len(UpperChars) : UpperChars[i] = c]
    ELSE c

EqualIgnoringCase(a, b) ==
    /\ Len(a) = Len(b)
    /\ \A i \in 1..Len(a) : CharLower(a[i]) = CharLower(b[i])

\* a failed login event: at least 4 tokens, the fourth is LOGIN_FAILED
IsFailureLine(line) ==
    /\ TokenCount(line) >= 4
    /\ EqualIgnoringCase(Token(line, 4), LOGIN_FAILED)

\* for each line a log may hold: is it a failed login, and of which user
LineFacts ==
    [ l \in Lines |->
        [failure |-> IsFailureLine(l),
         user    |-> IF TokenCount(l) >= 3 THEN Token(l, 3) ELSE <<>>] ]

IsFailureOf(line, u) == LineFacts[line].failure /\ LineFacts[line].user = u

FailuresOf(u) == Cardinality({ i \in 1..Len(read) : IsFailureOf(read[i], u) })

RECURSIVE SumCounts(_)
SumCounts(d) == IF d = <<>> THEN 0 ELSE Head(d).count + SumCounts(Tail(d))

\* every string that may be asked about as a user
LineUsers == { LineFacts[l].user : l \in Lines } \cup { StrUpper(W_alice) }

UserUniverse == LineUsers \cup Keys(failed_attempts)

ThresholdRange == (0 - 2)..(MaxLines + 2)

\* indices of the tally entries with count >= t
AtOrAbove(t) == { i \in 1..Len(failed_attempts) : failed_attempts[i].count >= t }

OutputOfKind(kind) == SelectSeq(output, LAMBDA o : o.kind = kind)

UserLinesPrinted == OutputOfKind("user")

\* the threshold arguments that are integers, with their values
IntegerArgs ==
    { << <<"2">>, 2 >>, << <<"0">>, 0 >>, << <<"-","1">>, 0 - 1 >>,
      << <<" ","+","1","_","0">>, 10 >> }

NonIntegerArgs == { <<"a","b","c">>, <<"2",".","5">> }

\* ------------------------------------------------------------------ claims

\* C1: whatever prefix of the lines has been processed, total_failed is the
\* sum of the counts in the failed_attempts tally.
C1_Conservation == total_failed = SumCounts(failed_attempts)

C1_Witness ==
    /\ pc = "done"
    /\ total_failed = 3
    /\ Len(failed_attempts) = 2

\* C2: a string u is a key of the tally exactly when some processed line has
\* at least 4 tokens, third token u and fourth token LOGIN_FAILED ignoring
\* case; its count is the number of such lines, and every count is >= 1.
C2_TallyMatchesReference ==
    /\ \A u \in UserUniverse :
          /\ (u \in Keys(failed_attempts)) <=> (FailuresOf(u) >= 1)
          /\ DictGet(failed_attempts, u) = FailuresOf(u)
    /\ \A i \in 1..Len(failed_attempts) :
          /\ failed_attempts[i].count >= 1
          /\ \A j \in 1..Len(failed_attempts) :
                failed_attempts[i].user = failed_attempts[j].user => i = j

C2_Witness ==
    /\ pc = "done"
    /\ DictGet(failed_attempts, W_alice) = 2
    /\ DictGet(failed_attempts, W_Alice) = 1
    /\ \E i \in 1..Len(read) :
          LineFacts[read[i]].failure /\ Token(read[i], 4) = W_lower

\* C3: total_lines is the number of lines read, whatever the lines are, and
\* the report echoes that number; no line read gives 0.
C3_LineAccounting ==
    /\ total_lines = Len(read)
    /\ pc = "done" =>
          OutputOfKind("total_lines") = << Out("total_lines", "", <<>>, Len(read)) >>

C3_Witness ==
    /\ pc = "done"
    /\ total_lines = 3
    /\ \E i, j, k \in 1..Len(read) :
          /\ read[i] = NL
          /\ ~LineFacts[read[j]].failure /\ read[j] # NL
          /\ LineFacts[read[k]].failure

\* C4: a line that is blank, has fewer than 4 tokens, or whose fourth token
\* is not LOGIN_FAILED ignoring case leaves the tally and total_failed as
\* they were, adds 1 to total_lines, and the loop goes on.
C4_MalformedFrame ==
    [][ (read' # read /\ ~LineFacts[read'[Len(read')]].failure)
           => /\ failed_attempts' = failed_attempts
              /\ total_failed' = total_failed
              /\ total_lines' = total_lines + 1
              /\ pc' = "load" ]_vars

C4_Witness ==
    /\ pc = "load"
    /\ Len(read) >= 2
    /\ failed_attempts # <<>>
    /\ ~LineFacts[read[Len(read)]].failure
    /\ TokenCount(read[Len(read)]) >= 4

\* C5: for every threshold, find_suspicious_users returns exactly the tally
\* entries whose count is >= threshold, each once; a threshold <= 0 returns
\* the whole tally.
C5_FilterExactness ==
    \A t \in ThresholdRange \cup {threshold} :
       LET r == find_suspicious_users(failed_attempts, t)
       IN  /\ \A i \in 1..Len(r) :
                 /\ r[i].user \in Keys(failed_attempts)
                 /\ r[i].count = DictGet(failed_attempts, r[i].user)
                 /\ r[i].count >= t
                 /\ \A j \in 1..Len(r) : r[i].user = r[j].user => i = j
           /\ \A k \in AtOrAbove(t) :
                 \E i \in 1..Len(r) : r[i] = failed_attempts[k]
           /\ t <= 0 => r = failed_attempts

C5_Witness ==
    /\ pc = "print_summary"
    /\ Len(failed_attempts) = 2
    /\ Len(find_suspicious_users(failed_attempts, threshold)) = 1
    /\ \E i \in 1..Len(failed_attempts) : failed_attempts[i].count = threshold

\* C6: for thresholds t1 <= t2, every entry find_suspicious_users returns
\* for t2 is also returned, with the same count, for t1.
C6_FilterMonotone ==
    \A t1, t2 \in ThresholdRange \cup {threshold} :
       t1 <= t2 =>
          LET r1 == find_suspicious_users(failed_attempts, t1)
              r2 == find_suspicious_users(failed_attempts, t2)
          IN  \A i \in 1..Len(r2) : \E j \in 1..Len(r1) : r1[j] = r2[i]

C6_Witness ==
    /\ pc = "print_summary"
    /\ Len(find_suspicious_users(failed_attempts, 1)) = 2
    /\ Len(find_suspicious_users(failed_attempts, 2)) = 1

\* C7: when the log path does not exist the run prints the missing-path
\* message and ends with status 1 without calling load_failed_attempts or
\* printing a summary; load_failed_attempts is called only for a path that
\* exists.
C7_MissingInput ==
    /\ (pc \notin {"parse_args", "check_exists"} /\ fs[log_path] = "absent") =>
          /\ pc = "exited"
          /\ exit_status = <<1>>
          /\ output[Len(output)] = Out("not_found", log_path, <<>>, 0)
          /\ ~load_called
          /\ read = <<>>
          /\ failed_attempts = <<>>
          /\ OutputOfKind("header") = <<>>
    /\ load_called => (pc \notin {"parse_args", "check_exists"}
                       /\ fs[log_path] # "absent")

C7_Witness ==
    /\ pc = "exited"
    /\ fs[log_path] = "absent"
    /\ Len(output) = 2

\* C8: when some entry is at or above the threshold, the report has one
\* "Suspicious users" line followed by one line per such entry and no other,
\* counts never increasing; entries with equal counts keep the order in
\* which the tally holds them.
C8_ReportOrdering ==
    (pc = "done" /\ AtOrAbove(threshold) # {}) =>
       LET u == UserLinesPrinted
       IN  /\ Len(OutputOfKind("suspicious_header")) = 1
           /\ Len(u) = Cardinality(AtOrAbove(threshold))
           /\ SubSeq(output, Len(output) - Len(u), Len(output))
                 = << Out("suspicious_header", "", <<>>, 0) >> \o u
           /\ \A k \in AtOrAbove(threshold) :
                 Cardinality({ i \in 1..Len(u) :
                                  u[i].user = failed_attempts[k].user }) = 1
           /\ \A i \in 1..Len(u) :
                 u[i].num = DictGet(failed_attempts, u[i].user)
           /\ \A i, j \in 1..Len(u) :
                 i < j =>
                    /\ u[i].num >= u[j].num
                    /\ u[i].num = u[j].num =>
                          \E a, b \in 1..Len(failed_attempts) :
                             /\ a < b
                             /\ failed_attempts[a].user = u[i].user
                             /\ failed_attempts[b].user = u[j].user

C8_Witness ==
    /\ pc = "done"
    /\ Len(UserLinesPrinted) = 2
    /\ UserLinesPrinted[1].num = 2
    /\ UserLinesPrinted[2].num = 1
    /\ failed_attempts[1].user = UserLinesPrinted[2].user

\* C9: a threshold argument that is not an integer gives a diagnostic and
\* the default threshold 5, and the run goes on to the existence check, the
\* parse and the report with threshold 5; no threshold argument gives 5; an
\* integer argument gives that integer and no diagnostic.
C9_ThresholdRecovery ==
    LET diag == OutputOfKind("invalid_threshold")
    IN  /\ pc = "parse_args" => diag = <<>>
        /\ pc # "parse_args" =>
              /\ Len(argv) < 3 =>
                    threshold = DEFAULT_FAILED_THRESHOLD /\ diag = <<>>
              /\ (Len(argv) >= 3 /\ argv[3] \in NonIntegerArgs) =>
                    /\ threshold = DEFAULT_FAILED_THRESHOLD
                    /\ diag = << Out("invalid_threshold", "", argv[3],
                                    DEFAULT_FAILED_THRESHOLD) >>
                    /\ output[1] = diag[1]
                    /\ pc = "exited" => fs[log_path] = "absent"
                    /\ pc = "io_error" => fs[log_path] = "dir"
              /\ \A a \in IntegerArgs :
                    (Len(argv) >= 3 /\ argv[3] = a[1]) =>
                       threshold = a[2] /\ diag = <<>>
              /\ Len(argv) >= 3 =>
                    \/ argv[3] \in NonIntegerArgs
                    \/ \E a \in IntegerArgs : argv[3] = a[1]
              /\ pc = "done" =>
                    /\ OutputOfKind("threshold")
                          = << Out("threshold", "", <<>>, threshold) >>
                    /\ Len(UserLinesPrinted) = Cardinality(AtOrAbove(threshold))

C9_Witness ==
    /\ pc = "done"
    /\ Len(argv) >= 3
    /\ argv[3] \in NonIntegerArgs
    /\ threshold = 5
    /\ total_failed = 3

\* C10: the report has the single "no suspicious users" line, and neither a
\* "Suspicious users" line nor a user line, exactly when no tally entry has
\* count >= threshold; so it has for an empty log whatever the threshold.
C10_EmptyReportBranch ==
    pc = "done" =>
       LET none == OutputOfKind("no_suspicious")
           quiet == /\ Len(none) = 1
                    /\ output[Len(output)] = none[1]
                    /\ OutputOfKind("suspicious_header") = <<>>
                    /\ UserLinesPrinted = <<>>
       IN  /\ quiet <=> (AtOrAbove(threshold) = {})
           /\ AtOrAbove(threshold) # {} => none = <<>>
           /\ read = <<>> => quiet

C10_Witness ==
    /\ pc = "done"
    /\ read = <<>>
    /\ threshold < 0
    /\ OutputOfKind("no_suspicious") # <<>>

====
